---- MODULE Spec2Model ----
(***************************************************************************)
(* A model of backend/cli_adapter.py: the process runner (_run_cli), the   *)
(* four provider adapters with their output parsers, query_model and the   *)
(* fan-out query_models_parallel (asyncio.gather, return_exceptions=False).*)
(*                                                                         *)
(* Text is modelled by its structure.  A captured standard output is a     *)
(* sequence of lines; a line is blank, plain text that is not JSON, or the *)
(* text of one JSON value.  A JSON value is a tagged tuple.  A model       *)
(* identifier is the sequence of its tokens, ":" being a token.            *)
(***************************************************************************)
EXTENDS Integers, Sequences, FiniteSets, TLC

\* Bounds of the model.
MaxModels == 2
MaxLines == 2

(***************************************************************************)
(* JSON values as json.loads returns them.                                 *)
(***************************************************************************)
JNull == <<"null">>
JStr(s) == <<"str", s>>
JNum(n) == <<"num", n>>
JList(l) == <<"list", l>>
JObj(f) == <<"obj", f>>

IsDict(v) == v[1] = "obj"
IsStr(v) == v[1] = "str"

\* Python truth value of a parsed JSON value.
Truthy(v) ==
    CASE v[1] = "null" -> FALSE
      [] v[1] = "str" -> v[2] # ""
      [] v[1] = "num" -> v[2] # 0
      [] v[1] = "list" -> Len(v[2]) > 0
      [] v[1] = "obj" -> DOMAIN v[2] # {}

\* Python's `a or b`: a when a is truthy, otherwise b whatever b is.
PyOr(a, b) == IF Truthy(a) THEN a ELSE b

\* dict.get(key): the value, or None when the key is absent.
Get(d, key) == IF key \in DOMAIN d[2] THEN d[2][key] ELSE JNull

(***************************************************************************)
(* Lines and outputs.                                                      *)
(***************************************************************************)
BlankLine == <<"blank">>
TextLine == <<"text">>
JsonLine(v) == <<"json", v>>

\* l.strip() is empty
IsBlank(line) == line[1] = "blank"

\* json.loads(line) succeeds; otherwise it raises JSONDecodeError
Parses(line) == line[1] = "json"

RECURSIVE LStrip(_)
LStrip(out) ==
    IF out = <<>> THEN <<>>
    ELSE IF IsBlank(Head(out)) THEN LStrip(Tail(out)) ELSE out

RECURSIVE RStrip(_)
RStrip(out) ==
    IF out = <<>> THEN <<>>
    ELSE IF IsBlank(out[Len(out)]) THEN RStrip(SubSeq(out, 1, Len(out) - 1)) ELSE out

\* output.strip(): leading and trailing white space removed
Strip(out) == RStrip(LStrip(out))

\* The content strings the adapters produce.
RawText(out) == <<"raw", out>>
Dumped(v) == <<"dump", v>>

\* What a call yields: a value, or an exception.
Ok(v) == <<"ok", v>>
Raise(e) == <<"raise", e>>

(***************************************************************************)
(* _extract_last_message_from_codex_jsonl                                  *)
(***************************************************************************)
\* lines = [l for l in output.splitlines() if l.strip()]
NonBlankLines(out) == SelectSeq(out, LAMBDA l : ~IsBlank(l))

\* msg = obj.get("message") or obj.get("data") or obj.get("event")
CodexMsg(obj) == PyOr(PyOr(Get(obj, "message"), Get(obj, "data")), Get(obj, "event"))

\* isinstance(content, str) and (role in (None, "assistant"))
CodexAccepts(msg) ==
    /\ IsStr(Get(msg, "content"))
    /\ Get(msg, "role") \in {JNull, JStr("assistant")}

\* A variant of the assignment below that keeps the first candidate.
CodexKeepFirst(last, msg) ==
    IF IsDict(msg) /\ CodexAccepts(msg) /\ last = JNull THEN Get(msg, "content") ELSE last

\* The assignment to last_content in the loop body, for a line that parsed to a dict.
CodexUpdate(last, msg) ==
    IF IsDict(msg) /\ CodexAccepts(msg) THEN Get(msg, "content") ELSE last

\* The for loop from line i on; obj.get on a value that is no dict raises
\* AttributeError, which nothing catches.
RECURSIVE CodexLoop(_, _, _)
CodexLoop(lines, i, last) ==
    IF i > Len(lines) THEN Ok(last)
    ELSE IF ~Parses(lines[i]) THEN CodexLoop(lines, i + 1, last)
    ELSE IF ~IsDict(lines[i][2]) THEN Raise("AttributeError")
    ELSE CodexLoop(lines, i + 1, CodexUpdate(last, CodexMsg(lines[i][2])))

\* return last_content or output.strip()
ExtractCodex(out) ==
    LET r == CodexLoop(NonBlankLines(out), 1, JNull)
    IN  IF r[1] = "raise" THEN r
        ELSE IF Truthy(r[2]) THEN Ok(r[2]) ELSE Ok(RawText(Strip(out)))

(***************************************************************************)
(* _extract_claude_text                                                    *)
(***************************************************************************)
\* completion = payload.get("completion") or payload.get("result") or {}
ClaudeCompletion(payload) ==
    PyOr(PyOr(Get(payload, "completion"), Get(payload, "result")), JObj(<<>>))

\* text = completion.get("text") or completion.get("content")
ClaudeCompletionText(completion) == PyOr(Get(completion, "text"), Get(completion, "content"))

\* output = payload.get("output") or payload.get("text")
ClaudeOutput(payload) == PyOr(Get(payload, "output"), Get(payload, "text"))

\* A variant of the search below that tries output/text before completion/result.
ExtractClaudeOutputFirst(payload) ==
    IF IsDict(payload) /\ IsStr(ClaudeOutput(payload)) THEN ClaudeOutput(payload)
    ELSE IF IsDict(payload) /\ IsDict(ClaudeCompletion(payload))
            /\ IsStr(ClaudeCompletionText(ClaudeCompletion(payload)))
    THEN ClaudeCompletionText(ClaudeCompletion(payload))
    ELSE IF IsDict(payload) /\ IsDict(Get(payload, "message"))
            /\ IsStr(Get(Get(payload, "message"), "content"))
    THEN Get(Get(payload, "message"), "content")
    ELSE Dumped(payload)

\* The three patterns in their order, then json.dumps(payload).
ExtractClaudeText(payload) ==
    IF IsDict(payload) /\ IsDict(ClaudeCompletion(payload))
       /\ IsStr(ClaudeCompletionText(ClaudeCompletion(payload)))
    THEN ClaudeCompletionText(ClaudeCompletion(payload))
    ELSE IF IsDict(payload) /\ IsStr(ClaudeOutput(payload)) THEN ClaudeOutput(payload)
    ELSE IF IsDict(payload) /\ IsDict(Get(payload, "message"))
            /\ IsStr(Get(Get(payload, "message"), "content"))
    THEN Get(Get(payload, "message"), "content")
    ELSE Dumped(payload)

\* json.loads(out) of the whole output: white space around the one document is
\* allowed; no document, text that is not JSON, or extra data raise JSONDecodeError.
WholeParses(out) == Len(Strip(out)) = 1 /\ Parses(Strip(out)[1])

\* _query_claude after a zero exit code
ParseClaude(out) ==
    IF ~WholeParses(out) THEN Ok(RawText(Strip(out)))
    ELSE Ok(ExtractClaudeText(Strip(out)[1][2]))

(***************************************************************************)
(* The adapters, from the tuple _run_cli returned.                         *)
(***************************************************************************)
PyNone == <<"None">>
Content(c) == <<"content", c>>

Providers == {"codex", "claude", "gemini", "grok"}

\* The parse of a provider's standard output after a zero exit code.
ParseOutput(provider, out) ==
    CASE provider = "codex" -> ExtractCodex(out)
      [] provider = "claude" -> ParseClaude(out)
      [] OTHER -> Ok(RawText(Strip(out)))

\* if code != 0: return None; else return {"content": content}
AdapterResult(provider, code, out) ==
    IF code # 0 THEN Ok(PyNone)
    ELSE LET r == ParseOutput(provider, out)
         IN  IF r[1] = "raise" THEN r ELSE Ok(Content(r[2]))

(***************************************************************************)
(* query_model: validation and dispatch.                                   *)
(***************************************************************************)
\* ":" in model
HasSeparator(model) == \E k \in 1..Len(model) : model[k] = ":"

FirstSeparator(model) ==
    CHOOSE k \in 1..Len(model) : model[k] = ":" /\ \A j \in 1..(k - 1) : model[j] # ":"

\* provider, model_name = model.split(":", 1)
ProviderOf(model) == SubSeq(model, 1, FirstSeparator(model) - 1)
ModelNameOf(model) == SubSeq(model, FirstSeparator(model) + 1, Len(model))

\* prompt = messages[-1].get("content", "")
Prompt(msgs) ==
    IF "content" \in DOMAIN msgs[Len(msgs)] THEN msgs[Len(msgs)]["content"] ELSE ""

\* A variant of the dispatch whose final else runs a plain-text adapter.
DispatchAnyProvider(model) ==
    IF \E p \in Providers : ProviderOf(model) = <<p>>
    THEN ProviderOf(model)[1]
    ELSE "gemini"

\* The if/elif chain on provider; "ValueError" from the final else.
Dispatch(model) ==
    IF \E p \in Providers : ProviderOf(model) = <<p>>
    THEN ProviderOf(model)[1]
    ELSE "ValueError"

\* What query_model does with its arguments before any adapter runs: the adapter
\* it dispatches to, or "ValueError".
Validate(model, msgs) ==
    IF msgs = <<>> THEN "ValueError"
    ELSE IF Prompt(msgs) = "" THEN "ValueError"
    ELSE IF ~HasSeparator(model) THEN "ValueError"
    ELSE Dispatch(model)

(***************************************************************************)
(* The inputs.                                                             *)
(***************************************************************************)
ModelIds ==
    { <<"codex", ":", "a">>, <<"claude", ":", "b">>, <<"gemini", ":", "c">>,
      <<"grok", ":", "d">>, <<"codex", ":", "a", ":", "b">>,
      <<"foo", ":", "bar">>, <<"nocolon">> }

RECURSIVE SeqsUpTo(_, _)
SeqsUpTo(S, n) ==
    IF n = 0 THEN {<<>>}
    ELSE LET shorter == SeqsUpTo(S, n - 1)
         IN  shorter \cup {Append(q, x) : q \in shorter, x \in S}

MessageLists ==
    { <<>>,
      <<[role |-> "user", content |-> "hi"]>>,
      <<[role |-> "user", content |-> ""]>>,
      <<[role |-> "user", content |-> "hi"], [role |-> "user"]>> }

AssistantLine(s) ==
    JsonLine(JObj([message |-> JObj([role |-> JStr("assistant"), content |-> JStr(s)])]))

\* What a tool may write in the fan-out model.
Stdouts == { <<>>, <<JsonLine(JNum(5))>>, <<AssistantLine("Y"), BlankLine>> }

ExitCodes == {0, 1}

(***************************************************************************)
(* State.                                                                  *)
(***************************************************************************)
VARIABLES
    models,     \* query_models_parallel's models
    messages,   \* and its messages
    pc,         \* per query_model call: "pending", "running", "returned", "raised"
    proc,       \* per call, its subprocess: "none", "running", "exited", "killed"
    launches,   \* per call, the calls of asyncio.create_subprocess_exec it made
    cli,        \* per call, the tuple _run_cli returned, <<>> before it returns
    res,        \* per call, query_model's result
    exc,        \* per call, the exception it raised, "" when none
    gpc,        \* query_models_parallel: "waiting", "returned", "raised"; "idle" when not called
    gout,       \* what query_models_parallel handed to its caller
    pprov,      \* the adapter under test in the parsing specification
    pout,       \* the standard output given to it
    pres        \* its outcome

fanVars == <<models, messages, pc, proc, launches, cli, res, exc, gpc, gout>>
parseVars == <<pprov, pout, pres>>
vars == <<models, messages, pc, proc, launches, cli, res, exc, gpc, gout, pprov, pout, pres>>

Unset == <<"unset">>
Calls == DOMAIN models
Resolved(i) == pc[i] \in {"returned", "raised"}

\* The state when query_models_parallel has built its coroutines and awaits gather.
Init ==
    /\ models \in SeqsUpTo(ModelIds, MaxModels)
    /\ messages \in MessageLists
    /\ pc = [i \in DOMAIN models |-> "pending"]
    /\ proc = [i \in DOMAIN models |-> "none"]
    /\ launches = [i \in DOMAIN models |-> 0]
    /\ cli = [i \in DOMAIN models |-> <<>>]
    /\ res = [i \in DOMAIN models |-> Unset]
    /\ exc = [i \in DOMAIN models |-> ""]
    /\ gpc = "waiting"
    /\ gout = Unset
    /\ pprov = "codex"
    /\ pout = <<>>
    /\ pres = Unset

(***************************************************************************)
(* The steps of one query_model call.  The event loop runs a coroutine     *)
(* without interruption from one suspension point to the next.             *)
(***************************************************************************)
\* A variant of the kill that reaches every running subprocess of the fan-out.
KillAllRunning(p, i) == [j \in DOMAIN p |-> IF p[j] = "running" THEN "killed" ELSE p[j]]

\* proc.kill(): the call's own subprocess.
Kill(p, i) == [p EXCEPT ![i] = "killed"]

\* One call of asyncio.create_subprocess_exec.
Spawn(n) == n + 1

\* The first step of call i: validation, dispatch, the adapter's command and
\* _run_cli up to its wait for proc.communicate().  gather starts the calls in the
\* order of models.  create_subprocess_exec raises OSError when the tool cannot be
\* started, and nothing catches it.
Start(i) ==
    /\ gpc # "idle"
    /\ pc[i] = "pending"
    /\ \A j \in 1..(i - 1) : pc[j] # "pending"
    /\ IF Validate(models[i], messages) = "ValueError"
       THEN /\ pc' = [pc EXCEPT ![i] = "raised"]
            /\ exc' = [exc EXCEPT ![i] = "ValueError"]
            /\ UNCHANGED <<proc, launches>>
       ELSE /\ launches' = [launches EXCEPT ![i] = Spawn(@)]
            /\ \/ /\ proc' = [proc EXCEPT ![i] = "running"]
                  /\ pc' = [pc EXCEPT ![i] = "running"]
                  /\ UNCHANGED exc
               \/ /\ pc' = [pc EXCEPT ![i] = "raised"]
                  /\ exc' = [exc EXCEPT ![i] = "OSError"]
                  /\ UNCHANGED proc
    /\ UNCHANGED <<models, messages, cli, res, gpc, gout, parseVars>>

\* The rest of the adapter once _run_cli has returned tuple t.
Finish(i, t) ==
    LET r == AdapterResult(Validate(models[i], messages), t[1], t[2])
    IN  /\ cli' = [cli EXCEPT ![i] = t]
        /\ IF r[1] = "raise"
           THEN /\ pc' = [pc EXCEPT ![i] = "raised"]
                /\ exc' = [exc EXCEPT ![i] = r[2]]
                /\ UNCHANGED res
           ELSE /\ pc' = [pc EXCEPT ![i] = "returned"]
                /\ res' = [res EXCEPT ![i] = r[2]]
                /\ UNCHANGED exc

\* A variant of the completion below in which a failed run is started again.
CompleteRetry(i) ==
    /\ pc[i] = "running"
    /\ proc[i] = "running"
    /\ \E code \in ExitCodes, out \in Stdouts :
          IF code # 0
          THEN /\ launches' = [launches EXCEPT ![i] = Spawn(@)]
               /\ UNCHANGED <<pc, proc, cli, res, exc>>
          ELSE /\ proc' = [proc EXCEPT ![i] = "exited"]
               /\ Finish(i, <<code, out, "">>)
               /\ UNCHANGED launches
    /\ UNCHANGED <<models, messages, gpc, gout, parseVars>>

\* The subprocess of call i ends within the timeout: proc.communicate() returns,
\* _run_cli returns (returncode, stdout, stderr) and the adapter finishes.
Complete(i) ==
    /\ pc[i] = "running"
    /\ proc[i] = "running"
    /\ \E code \in ExitCodes, out \in Stdouts :
          /\ proc' = [proc EXCEPT ![i] = "exited"]
          /\ Finish(i, <<code, out, IF code = 0 THEN "" ELSE "error">>)
    /\ UNCHANGED <<models, messages, launches, gpc, gout, parseVars>>

\* A variant of the timeout below that goes on waiting instead of killing.
TimeoutWaits(i) ==
    /\ pc[i] = "running"
    /\ proc[i] = "running"
    /\ UNCHANGED vars

\* The timeout of call i elapses first: asyncio.TimeoutError, proc.kill(), and
\* _run_cli returns (-1, "", "timeout").
Timeout(i) ==
    /\ pc[i] = "running"
    /\ proc[i] = "running"
    /\ proc' = Kill(proc, i)
    /\ Finish(i, <<-1, <<>>, "timeout">>)
    /\ UNCHANGED <<models, messages, launches, gpc, gout, parseVars>>

(***************************************************************************)
(* query_models_parallel: asyncio.gather and the result mapping.           *)
(***************************************************************************)
\* A variant of the mapping below in which the first pair of a key is kept.
RECURSIVE DictKeepFirst(_, _, _)
DictKeepFirst(ms, rs, n) ==
    IF n = 0 THEN <<>>
    ELSE LET d == DictKeepFirst(ms, rs, n - 1)
         IN  [k \in DOMAIN d \cup {ms[n]} |-> IF k \in DOMAIN d THEN d[k] ELSE rs[n]]

\* {m: r for m, r in zip(models, results)}, built over the first n pairs.
RECURSIVE DictOfZip(_, _, _)
DictOfZip(ms, rs, n) ==
    IF n = 0 THEN <<>>
    ELSE LET d == DictOfZip(ms, rs, n - 1)
         IN  [k \in DOMAIN d \cup {ms[n]} |-> IF k = ms[n] THEN rs[n] ELSE d[k]]

\* A call has raised: gather (return_exceptions=False) hands that exception to the
\* awaiting query_models_parallel at once; the other calls are neither awaited nor
\* cancelled.  The callback runs after every call has taken its first step.
GatherRaise ==
    /\ gpc = "waiting"
    /\ \A j \in Calls : pc[j] # "pending"
    /\ \E i \in Calls :
          /\ pc[i] = "raised"
          /\ gout' = Raise(exc[i])
    /\ gpc' = "raised"
    /\ UNCHANGED <<models, messages, pc, proc, launches, cli, res, exc, parseVars>>

\* Every call has returned: gather yields the results in the order of models and
\* query_models_parallel returns the mapping.
GatherReturn ==
    /\ gpc = "waiting"
    /\ \A j \in Calls : pc[j] = "returned"
    /\ gout' = Ok(DictOfZip(models, res, Len(models)))
    /\ gpc' = "returned"
    /\ UNCHANGED <<models, messages, pc, proc, launches, cli, res, exc, parseVars>>

Next ==
    \/ \E i \in Calls : Start(i)
    \/ \E i \in Calls : Complete(i)
    \/ \E i \in Calls : Timeout(i)
    \/ GatherRaise
    \/ GatherReturn

Spec == Init /\ [][Next]_vars

\* The event loop runs every ready step and every due timer; a tool need not end.
LiveSpec ==
    /\ Spec
    /\ \A i \in 1..MaxModels :
          WF_vars(i \in Calls /\ Start(i)) /\ WF_vars(i \in Calls /\ Timeout(i))
    /\ WF_vars(GatherRaise)
    /\ WF_vars(GatherReturn)

(***************************************************************************)
(* The adapters' parsing on its own: an adapter whose tool exited with     *)
(* code 0, over a range of standard outputs.                               *)
(***************************************************************************)
MaxPad == 1

Absent == <<"absent">>

\* The JSON object with the fields of f that are not Absent.
MkObj(f) == JObj([k \in {x \in DOMAIN f : f[x] # Absent} |-> f[k]])

Msg(role, content) == MkObj([role |-> role, content |-> content])

CodexMessageVals ==
    { Absent, JNull, JObj(<<>>), JStr("s"),
      Msg(Absent, JStr("A")), Msg(JStr("assistant"), JStr("B")),
      Msg(JStr("user"), JStr("C")), Msg(Absent, JStr("")),
      Msg(Absent, JNum(5)), Msg(JNull, JStr("N")) }
CodexDataVals == { Absent, Msg(Absent, JStr("D")), Msg(JStr("user"), JStr("U")) }
CodexEventVals == { Absent, Msg(JStr("assistant"), JStr("E")) }

NonObjectVals == { JNull, JNum(5), JStr("s"), JList(<<>>) }

CodexLines ==
    { JsonLine(MkObj([message |-> m, data |-> d, event |-> e])) :
        m \in CodexMessageVals, d \in CodexDataVals, e \in CodexEventVals }
    \cup { JsonLine(v) : v \in NonObjectVals }
    \cup { BlankLine, TextLine }

Sub(text, content) == MkObj([text |-> text, content |-> content])

ClaudeCompletionVals ==
    { Absent, JObj(<<>>), JStr("s"), Sub(JStr("T"), Absent), Sub(JStr(""), JStr("C")),
      Sub(Absent, JStr("")), Sub(JNum(5), JStr("C")) }
ClaudeResultVals == { Absent, Sub(JStr("R"), Absent) }
ClaudeOutputVals == { Absent, JStr(""), JStr("O") }
ClaudeTextVals == { Absent, JStr(""), JStr("X") }
ClaudeMessageVals == { Absent, Msg(Absent, JStr("M")), JStr("s"), Msg(Absent, JNum(5)) }

ClaudeDocs ==
    { MkObj([completion |-> c, result |-> r, output |-> o, text |-> Absent, message |-> Absent]) :
        c \in ClaudeCompletionVals, r \in ClaudeResultVals, o \in ClaudeOutputVals }
    \cup
    { MkObj([completion |-> Absent, result |-> Absent, output |-> o, text |-> t, message |-> m]) :
        o \in {Absent, JStr("")}, t \in ClaudeTextVals, m \in ClaudeMessageVals }
    \cup { MkObj([completion |-> JObj(<<>>), result |-> Absent, output |-> Absent,
                  text |-> Absent, message |-> Msg(Absent, JStr("M"))]) }
    \cup NonObjectVals

Blanks(n) == [k \in 1..n |-> BlankLine]

\* One line, with blank lines before and after it.
Padded(line) == { Blanks(b) \o <<line>> \o Blanks(a) : b \in 0..MaxPad, a \in 0..MaxPad }

ClaudeOutputs ==
    UNION { Padded(JsonLine(v)) : v \in ClaudeDocs }
    \cup Padded(TextLine)
    \cup SeqsUpTo({BlankLine, TextLine, JsonLine(JNum(5))}, MaxLines)

PlainOutputs == SeqsUpTo({BlankLine, TextLine, JsonLine(JStr("s"))}, MaxLines)

OutputsOf(provider) ==
    CASE provider = "codex" -> SeqsUpTo(CodexLines, MaxLines)
      [] provider = "claude" -> ClaudeOutputs
      [] OTHER -> PlainOutputs

\* An adapter has been called and its tool has exited with code 0 and written pout.
ParseInit ==
    /\ pprov \in Providers
    /\ pout \in OutputsOf(pprov)
    /\ pres = Unset
    /\ models = <<>>
    /\ messages = <<>>
    /\ pc = <<>>
    /\ proc = <<>>
    /\ launches = <<>>
    /\ cli = <<>>
    /\ res = <<>>
    /\ exc = <<>>
    /\ gpc = "idle"
    /\ gout = Unset

\* The adapter's code after _run_cli returned (0, pout, "").
Parse ==
    /\ pres = Unset
    /\ pres' = AdapterResult(pprov, 0, pout)
    /\ UNCHANGED <<pprov, pout, fanVars>>

ParseNext == Parse

ParseSpec == ParseInit /\ [][ParseNext]_vars

(***************************************************************************)
(* Properties of the fan-out.                                              *)
(***************************************************************************)
Sentinel == <<-1, <<>>, "timeout">>

IsResult(r) == r = PyNone \/ r[1] = "content"

\* The index of the last entry of models equal to k.
LastEntry(k) == CHOOSE i \in Calls : models[i] = k /\ \A j \in Calls : j > i => models[j] # k

\* The arguments of call i that the contract rejects: no message, a last message
\* whose content is missing or empty, no ":" in the identifier, or a prefix before
\* the first ":" that is none of the four providers.
InvalidArgs(model, msgs) ==
    \/ Len(msgs) = 0
    \/ "content" \notin DOMAIN msgs[Len(msgs)]
    \/ msgs[Len(msgs)]["content"] = ""
    \/ ":" \notin {model[k] : k \in 1..Len(model)}
    \/ model[2] # ":"
    \/ model[1] \notin {"codex", "claude", "gemini", "grok"}

RECURSIVE SumTo(_, _)
SumTo(f, n) == IF n = 0 THEN 0 ELSE f[n] + SumTo(f, n - 1)

\* C1: query_models_parallel does not hand control back to its caller, by
\* returning or by raising, while a call it launched is still unresolved.
C1_JoinAll == gpc \in {"returned", "raised"} => \A i \in Calls : Resolved(i)

\* C2: when query_models_parallel returns, the keys of the mapping are exactly the
\* distinct identifiers of models, and each key maps to the result (null or
\* {content}) of the call launched for the last entry equal to it.
C2_MappingLastWins ==
    gpc = "returned" =>
        /\ gout[1] = "ok"
        /\ DOMAIN gout[2] = {models[i] : i \in Calls}
        /\ \A k \in DOMAIN gout[2] :
              /\ gout[2][k] = res[LastEntry(k)]
              /\ IsResult(gout[2][k])

C2_Witness ==
    /\ gpc = "returned"
    /\ Len(models) = 2
    /\ models[1] = models[2]
    /\ res[1] # PyNone
    /\ res[2] = PyNone

\* C3: only argument-validation errors leave query_model as exceptions; a call
\* whose arguments are valid ends with a result, whatever its subprocess did.
C3_OnlyValidationErrorsPropagate ==
    \A i \in Calls : pc[i] = "raised" => InvalidArgs(models[i], messages)

\* C4: a call with invalid arguments fails with the invalid-argument error and has
\* launched no subprocess at any point.
C4_InvalidArgsRaiseBeforeSpawn ==
    \A i \in Calls :
        InvalidArgs(models[i], messages) =>
            /\ launches[i] = 0
            /\ proc[i] = "none"
            /\ pc[i] \in {"pending", "raised"}
            /\ pc[i] = "raised" => exc[i] = "ValueError"

C4_Witness ==
    \E i, j \in Calls :
        /\ pc[i] = "raised"
        /\ models[i] = <<"foo", ":", "bar">>
        /\ launches[i] = 0
        /\ launches[j] = 1

\* C5: a timeout kills the call's own subprocess, _run_cli returns (-1, "",
\* "timeout") and the call returns null; the subprocess, position and result of
\* every other call are left as they were.
C5_TimeoutKillsOwnProcess ==
    [][\A i \in Calls :
          (proc[i] = "running" /\ proc'[i] = "killed") =>
              /\ cli'[i] = Sentinel
              /\ pc'[i] = "returned"
              /\ res'[i] = PyNone
              /\ \A j \in Calls \ {i} :
                    proc'[j] = proc[j] /\ pc'[j] = pc[j] /\ res'[j] = res[j]]_vars

C5_Witness ==
    \E i, j \in Calls :
        /\ proc[i] = "killed"
        /\ res[i] = PyNone
        /\ proc[j] = "exited"
        /\ res[j] # PyNone
        /\ pc[j] = "returned"

\* C7: every call, and the fan-out with it, eventually completes, also when a tool
\* never ends on its own.
C7_EventuallyCompletes == <>(gpc # "waiting" /\ \A i \in Calls : Resolved(i))

C7_Witness ==
    /\ gpc = "returned"
    /\ \E i \in Calls : proc[i] = "killed" /\ res[i] = PyNone

\* C10: no call makes more than one launch; a call that passed validation has made
\* exactly one; a non-zero exit code or a timeout ends the call with null; a fan-out
\* that returned made one launch per entry, duplicates included.
C10_NoRetry ==
    /\ \A i \in Calls :
          /\ launches[i] <= 1
          /\ (pc[i] # "pending" /\ ~InvalidArgs(models[i], messages)) => launches[i] = 1
          /\ (cli[i] # <<>> /\ cli[i][1] # 0) =>
                pc[i] = "returned" /\ res[i] = PyNone /\ proc[i] \in {"exited", "killed"}
    /\ gpc = "returned" => SumTo(launches, Len(models)) = Len(models)

C10_Witness ==
    /\ gpc = "returned"
    /\ Len(models) = 2
    /\ models[1] = models[2]
    /\ cli[1][1] = 1
    /\ cli[2] = Sentinel
    /\ launches = <<1, 1>>

(***************************************************************************)
(* Properties of the parsing.                                              *)
(***************************************************************************)
Parsed == pres # Unset

\* C6: after a zero exit code every adapter returns {content: ...} and never
\* raises, whatever the standard output was.
C6_ExitZeroYieldsContent == Parsed => (pres[1] = "ok" /\ pres[2][1] = "content")

\* The values Python takes for false.
Falsy == { JNull, JStr(""), JNum(0), JList(<<>>), JObj(<<>>) }

Field(v, key) == IF key \in DOMAIN v[2] THEN v[2][key] ELSE JNull

FirstNonNull(a, b) == IF a # JNull THEN a ELSE b
FirstTruthy(a, b) == IF a \notin Falsy THEN a ELSE b

\* A payload that is a mapping with a string content and a role that is absent
\* (or null) or "assistant".
IsCandidate(p) ==
    /\ p[1] = "obj"
    /\ Field(p, "content")[1] = "str"
    /\ Field(p, "role") = JNull \/ Field(p, "role") = JStr("assistant")

\* Shape A as C8 states it, over the payload rule given: the content of the last
\* line whose payload is a candidate, RawText(Strip(out)) when there is none.
PayloadNonNull(obj) ==
    FirstNonNull(Field(obj, "message"), FirstNonNull(Field(obj, "data"), Field(obj, "event")))
PayloadTruthy(obj) ==
    FirstTruthy(Field(obj, "message"), FirstTruthy(Field(obj, "data"), Field(obj, "event")))

StatedCandidates(out) ==
    { k \in 1..Len(out) :
        out[k][1] = "json" /\ out[k][2][1] = "obj" /\ IsCandidate(PayloadNonNull(out[k][2])) }
ActualCandidates(out) ==
    { k \in 1..Len(out) :
        out[k][1] = "json" /\ out[k][2][1] = "obj" /\ IsCandidate(PayloadTruthy(out[k][2])) }

Last(S) == CHOOSE k \in S : \A j \in S : j <= k

ShapeAStated(out) ==
    IF StatedCandidates(out) = {} THEN RawText(Strip(out))
    ELSE Field(PayloadNonNull(out[Last(StatedCandidates(out))][2]), "content")

ShapeAActual(out) ==
    IF ActualCandidates(out) = {} THEN RawText(Strip(out))
    ELSE IF Field(PayloadTruthy(out[Last(ActualCandidates(out))][2]), "content") = JStr("")
    THEN RawText(Strip(out))
    ELSE Field(PayloadTruthy(out[Last(ActualCandidates(out))][2]), "content")

HasNonObjectLine(out) == \E k \in 1..Len(out) : out[k][1] = "json" /\ out[k][2][1] # "obj"

\* C8 as stated: whenever the Shape-A parse returns, its result is the last
\* candidate, the payload of a line being the first non-null of message, data,
\* event, and the trimmed raw output only if no line yields a candidate.
C8_ShapeAFirstNonNull ==
    (Parsed /\ pprov = "codex" /\ pres[1] = "ok") => pres[2] = Content(ShapeAStated(pout))

\* C8 amended: the payload of a line is the first truthy of message, data, event;
\* the result is the last candidate if it is a non-empty string, and the trimmed
\* raw output otherwise; a line that is valid JSON but no object makes the parse
\* raise AttributeError.
C8_ShapeAFirstTruthy ==
    (Parsed /\ pprov = "codex") =>
        IF HasNonObjectLine(pout) THEN pres = Raise("AttributeError")
        ELSE pres = Ok(Content(ShapeAActual(pout)))

C8_Witness ==
    /\ Parsed
    /\ pprov = "codex"
    /\ Len(pout) = 2
    /\ ActualCandidates(pout) = {1, 2}
    /\ StatedCandidates(pout) = {1}
    /\ pres = Ok(Content(JStr("D")))

\* Shape B as C9 states it, "X or Y" read as the first of the two that is not
\* null: the first rule that applies wins.
ShapeBStated(v) ==
    LET c == FirstNonNull(Field(v, "completion"), Field(v, "result"))
        t == FirstNonNull(Field(c, "text"), Field(c, "content"))
        o == FirstNonNull(Field(v, "output"), Field(v, "text"))
        m == Field(v, "message")
    IN  IF v[1] # "obj" THEN Dumped(v)
        ELSE IF c[1] = "obj" /\ t[1] = "str" THEN t
        ELSE IF o[1] = "str" THEN o
        ELSE IF m[1] = "obj" /\ Field(m, "content")[1] = "str" THEN Field(m, "content")
        ELSE Dumped(v)

\* The same, "X or Y" read as the first of the two that has the type asked for.
FirstOfType(a, b, type) == IF a[1] = type THEN a ELSE IF b[1] = type THEN b ELSE JNull

ShapeBStatedByType(v) ==
    LET c == FirstOfType(Field(v, "completion"), Field(v, "result"), "obj")
        t == FirstOfType(Field(c, "text"), Field(c, "content"), "str")
        o == FirstOfType(Field(v, "output"), Field(v, "text"), "str")
        m == Field(v, "message")
    IN  IF v[1] # "obj" THEN Dumped(v)
        ELSE IF c[1] = "obj" /\ t[1] = "str" THEN t
        ELSE IF o[1] = "str" THEN o
        ELSE IF m[1] = "obj" /\ Field(m, "content")[1] = "str" THEN Field(m, "content")
        ELSE Dumped(v)

\* Shape B with "X or Y" as Python evaluates it: X when X is truthy, otherwise Y,
\* and in rule (a) an empty mapping when neither completion nor result is truthy.
ShapeBActual(v) ==
    LET c == FirstTruthy(Field(v, "completion"), FirstTruthy(Field(v, "result"), JObj(<<>>)))
        t == FirstTruthy(Field(c, "text"), Field(c, "content"))
        o == FirstTruthy(Field(v, "output"), Field(v, "text"))
        m == Field(v, "message")
    IN  IF v[1] # "obj" THEN Dumped(v)
        ELSE IF c[1] = "obj" /\ t[1] = "str" THEN t
        ELSE IF o[1] = "str" THEN o
        ELSE IF m[1] = "obj" /\ Field(m, "content")[1] = "str" THEN Field(m, "content")
        ELSE Dumped(v)

\* The one JSON document of an output, when the whole output is one.
IsDocument(out) == \E k \in 1..Len(out) :
    out[k][1] = "json" /\ \A j \in 1..Len(out) : j # k => out[j][1] = "blank"
Document(out) == out[CHOOSE k \in 1..Len(out) : out[k][1] = "json"][2]

\* C9 as stated: unparseable output yields the trimmed raw output; otherwise the
\* first applicable rule of (a) to (d) decides, under either reading of "or".
C9_ShapeBFirstRule ==
    (Parsed /\ pprov = "claude") =>
        IF ~IsDocument(pout) THEN pres = Ok(Content(RawText(Strip(pout))))
        ELSE \/ pres = Ok(Content(ShapeBStated(Document(pout))))
             \/ pres = Ok(Content(ShapeBStatedByType(Document(pout))))

\* C9 amended: as stated, each "X or Y" meaning X when X is truthy and Y otherwise.
C9_ShapeBFirstTruthy ==
    (Parsed /\ pprov = "claude") =>
        IF ~IsDocument(pout) THEN pres = Ok(Content(RawText(Strip(pout))))
        ELSE pres = Ok(Content(ShapeBActual(Document(pout))))

C9_Witness ==
    /\ Parsed
    /\ pprov = "claude"
    /\ IsDocument(pout)
    /\ Document(pout) = JObj([output |-> JStr("")])
    /\ pres = Ok(Content(Dumped(Document(pout))))

====
